---- MODULE Spec2Model ----
(***************************************************************************)
(* State-machine model of the map page and the map service.                *)
(*                                                                         *)
(*   MapService  src/src/app/services/map.service.ts                       *)
(*   MapPage     src/unnamed/part_000                                      *)
(*                                                                         *)
(* JavaScript values are encoded uniformly so that they can be compared:   *)
(* an optional value is a sequence of length 0 (undefined / null) or 1,    *)
(* a [lat, lng] array is a pair <<lat, lng>>, a {lat, lng} object is a     *)
(* record, and a string held by localStorage is a sequence of tokens.      *)
(* Leaflet and OSMBuildings calls are modelled by what the code hands to   *)
(* them (constructor options, marker position, flyTo target); behaviour    *)
(* internal to those libraries is not modelled.  Exceptions raised by the  *)
(* language itself (property access on null, assignment to a property of   *)
(* a primitive, `new` on undefined) are modelled.                          *)
(***************************************************************************)
EXTENDS Integers, Sequences, FiniteSets, TLC

VARIABLES
    \* ---- MapService ----
    svc,            \* "fields": field initialisers ran; "ready": constructor returned
    storage,        \* localStorage entry 'mapSettings': <<>> or <<text>>
    mapSettings,    \* this.mapSettings
    map,            \* this.map: <<>> or <<handle>>
    userLocation,   \* this.userLocation: <<>> or <<marker>>
    geo,            \* subscription to getLocation(): "none", "open", "closed"
    \* ---- Leaflet side, as driven by the service ----
    view,           \* target of the last flyTo: <<>> or <<[center, zoom]>>
    mapsCreated,    \* number of L.map(...) constructions
    tileLayers,     \* number of tile layers added to the map
    markersCreated, \* number of L.marker(...) constructions
    geoLayers,      \* the GeoJSON overlays added to the map, in order
    \* ---- MapPage ----
    pagePc,         \* "new", "loading" (awaiting the script), "done", "failed", "aborted"
    pageMap,        \* MapPage.map: <<>> or <<handle>>
    osmb,           \* MapPage.osmb: <<>> or <<overlay>>
    script,         \* remote script: "none", "loading", "loaded", "failed"
    active,         \* buttons carrying the class 'active'
    scriptLoads,    \* number of script elements appended by loadScript
    \* ---- OSMBuildings side, as driven by the page ----
    osmbCreated,    \* number of OSMBuildings constructions
    live,           \* ids of overlays constructed and not yet removed
    \* ---- diagnostics ----
    logged,         \* console.warn / console.error messages issued
    errors,         \* exceptions that escaped the repository's handlers
    \* ---- history (not read by any action's effect on the program state) ----
    initStored,     \* the storage entry found by the constructor
    geoLog,         \* kinds of the geolocation results processed so far
    lastFix,        \* the last position reported: <<>> or <<{lat, lng}>>
    attachEl,       \* <<>> before view-attach, then <<element found>>
    clicks          \* button operations invoked so far

svcVars  == <<svc, storage, mapSettings, map, userLocation, geo>>
leafVars == <<view, mapsCreated, tileLayers, markersCreated>>
pageVars == <<pagePc, pageMap, osmb, script, active, scriptLoads, osmbCreated, live>>
histVars == <<initStored, geoLog, lastFix, attachEl, clicks>>
vars == <<svcVars, leafVars, geoLayers, pageVars, logged, errors, histVars>>

----------------------------------------------------------------------------
(* Bounds of the model *)

MaxGeo == 2        \* geolocation results delivered to the subscription
MaxClicks == 2     \* render3D / render2D invocations
MaxGeoJson == 1    \* GeoJSON overlays added by renderGeoJson

----------------------------------------------------------------------------
(* Optional values *)

Undefined == <<>>
Def(x) == <<x>>
IsDef(m) == m # <<>>
Val(m) == m[1]

----------------------------------------------------------------------------
(* Program constants *)

DefaultLat == 31    \* 31.25271960741618, the fraction dropped
DefaultLng == 100   \* 100.70475680715587, the fraction dropped
DefaultZoom == 19

DefaultLocation == <<DefaultLat, DefaultLng>>

\* this.defaultMapSettings
defaultMapSettings ==
    [kind |-> "object", location |-> Def(DefaultLocation), zoom |-> Def(DefaultZoom)]

\* private mapSettings = { ...this.defaultMapSettings }
InitialMapSettingsEmpty ==
    [kind |-> "object", location |-> Undefined, zoom |-> Undefined]

InitialMapSettings ==
    [kind |-> "object", location |-> defaultMapSettings.location,
     zoom |-> defaultMapSettings.zoom]

----------------------------------------------------------------------------
(* Inputs *)

\* what the geolocation collaborator may report: null or a {lat, lng} object
Positions == { [lat |-> 10, lng |-> 20], [lat |-> 30, lng |-> 40] }
GeoResults == {Undefined} \cup { Def(p) : p \in Positions }

\* document.getElementById('map'): the element or null
Elements == { Def("div#map"), Undefined }

\* the buttons of the page (document.querySelectorAll('button'))
Buttons == {"btn2D", "btn3D", "btnOther"}

\* the buttons the template may mark active when the page is shown
InitialActive == { {}, {"btn3D"}, {"btn2D", "btnOther"} }

----------------------------------------------------------------------------
(* JSON.stringify / JSON.parse on the values the service stores            *)
(*                                                                         *)
(* A text is a sequence of tokens.  An object is written as an opening     *)
(* token followed by one token per property whose value is not undefined,  *)
(* the array value of `location` flattened into the token.                 *)

EmptyText   == <<>>                   \* ''
GarbageText == << <<"garbage">> >>    \* not JSON: JSON.parse throws
NullText    == << <<"null">> >>       \* 'null'
PrimText    == << <<"7">> >>          \* '7': parses to a primitive

\* JSON.stringify(o) for an object o
Stringify(o) ==
    << <<"{">> >>
      \o (IF IsDef(o.location)
            THEN << <<"location", Val(o.location)[1], Val(o.location)[2]>> >>
            ELSE <<>>)
      \o (IF IsDef(o.zoom) THEN << <<"zoom", Val(o.zoom)>> >> ELSE <<>>)

IsObjectText(t) == Len(t) >= 1 /\ t[1] = <<"{">>

\* the value a property token of key k gives, undefined when there is none
Prop(t, k) ==
    LET idx == { i \in 2..Len(t) : t[i][1] = k }
    IN  IF idx = {} THEN Undefined
        ELSE LET tok == t[CHOOSE i \in idx : TRUE]
             IN  IF k = "location" THEN Def(<<tok[2], tok[3]>>) ELSE Def(tok[2])

\* JSON.parse(t): [ok |-> FALSE] when it throws, else the value
Parse(t) ==
    IF IsObjectText(t)
      THEN [ok |-> TRUE,
            value |-> [kind |-> "object", location |-> Prop(t, "location"),
                       zoom |-> Prop(t, "zoom")]]
    ELSE IF t = NullText THEN [ok |-> TRUE, value |-> [kind |-> "null"]]
    ELSE IF t = PrimText THEN [ok |-> TRUE, value |-> [kind |-> "prim"]]
    ELSE [ok |-> FALSE]

\* a string is truthy unless it is empty
Truthy(t) == t # EmptyText

\* texts a previous session, or anything else writing the key, may have left
StoredObjects ==
    { [kind |-> "object", location |-> l, zoom |-> z] :
        l \in {Undefined, Def(<<50, 60>>)}, z \in {Undefined, Def(12)} }

StoredTexts ==
    {EmptyText, GarbageText, NullText, PrimText} \cup { Stringify(o) : o \in StoredObjects }

NoEntry == <<>>
Storages == {NoEntry} \cup { Def(t) : t \in StoredTexts }

----------------------------------------------------------------------------
(* Property access on this.mapSettings *)

\* reading s.location / s.zoom throws a TypeError when s is null
ReadThrows(s) == s.kind = "null"
\* assigning s.location throws when s is null or (strict mode) a primitive
WriteThrows(s) == s.kind # "object"

LocationOf(s) == IF s.kind = "object" THEN s.location ELSE Undefined
ZoomOf(s) == IF s.kind = "object" THEN s.zoom ELSE Undefined

----------------------------------------------------------------------------
(* MapService *)

\* initializeMapSettings, lines 36-44: the settings after the load, whether
\* the constructor threw, and what was logged
LoadSettingsNoCatch(st, s) ==
    IF ~IsDef(st) \/ ~Truthy(Val(st))
      THEN [settings |-> s, threw |-> FALSE, log |-> {}]
    ELSE IF Parse(Val(st)).ok
      THEN [settings |-> Parse(Val(st)).value, threw |-> FALSE, log |-> {}]
    ELSE [settings |-> s, threw |-> TRUE, log |-> {}]

LoadSettings(st, s) ==
    IF ~IsDef(st) \/ ~Truthy(Val(st))
      THEN [settings |-> s, threw |-> FALSE, log |-> {}]
    ELSE IF Parse(Val(st)).ok
      THEN [settings |-> Parse(Val(st)).value, threw |-> FALSE, log |-> {}]
    ELSE [settings |-> [kind |-> "object", location |-> defaultMapSettings.location,
                        zoom |-> defaultMapSettings.zoom],
          threw |-> FALSE,
          log |-> {"Error parsing map settings from localStorage"}]

\* useStoredOrDefaultLocation, for settings it does not throw on
UseStoredOrDefaultLocation(s) ==
    [s EXCEPT !.location = IF IsDef(s.location) THEN s.location
                           ELSE defaultMapSettings.location]

\* saveMapSettings: the storage entry after localStorage.setItem
SaveMapSettings(s) == Def(Stringify(s))

\* renderLocationMarker, called with this.map = m and this.mapSettings = s
MarkerWarn(m) == IF IsDef(m) THEN {} ELSE {"Map not initialized"}

renderLocationMarkerRecreate(m, s) ==
    IF ~IsDef(m)
      THEN UNCHANGED <<userLocation, markersCreated, view>>
      ELSE /\ userLocation' = Def([id |-> markersCreated + 1,
                                   pos |-> LocationOf(s),
                                   on |-> Val(m).id])
           /\ markersCreated' = markersCreated + 1
           /\ view' = Def([center |-> LocationOf(s), zoom |-> ZoomOf(s)])

renderLocationMarker(m, s) ==
    IF ~IsDef(m)
      THEN UNCHANGED <<userLocation, markersCreated, view>>
      ELSE /\ IF IsDef(userLocation)
                THEN /\ userLocation' = Def([Val(userLocation) EXCEPT !.pos = LocationOf(s)])
                     /\ UNCHANGED markersCreated
                ELSE /\ userLocation' = Def([id |-> markersCreated + 1,
                                             pos |-> LocationOf(s),
                                             on |-> Val(m).id])
                     /\ markersCreated' = markersCreated + 1
           /\ view' = Def([center |-> LocationOf(s), zoom |-> ZoomOf(s)])

\* renderMap(element)
RenderMapThrows(element) == IsDef(element) /\ ReadThrows(mapSettings)
RenderMapLog(element) == IF IsDef(element) THEN {} ELSE {"Map element not found"}

renderMap(element) ==
    IF ~IsDef(element) \/ ReadThrows(mapSettings)
      THEN UNCHANGED <<map, userLocation, leafVars>>
      ELSE LET m == Def([id |-> mapsCreated + 1,
                         element |-> Val(element),
                         center |-> LocationOf(mapSettings),
                         zoom |-> ZoomOf(mapSettings)])
           IN  /\ map' = m
               /\ mapsCreated' = mapsCreated + 1
               /\ tileLayers' = tileLayers + 1
               /\ renderLocationMarker(m, mapSettings)

\* getMap(element): its effect on the service; it returns of(map')
GetMapThrows(element) == ~IsDef(map) /\ RenderMapThrows(element)
GetMapLog(element) == IF IsDef(map) THEN {} ELSE RenderMapLog(element)

getMap(element) ==
    IF IsDef(map)
      THEN UNCHANGED <<map, userLocation, leafVars>>
      ELSE renderMap(element)

\* constructor -> initializeMapSettings: load the settings, subscribe to
\* the geolocation collaborator
Constructor ==
    /\ svc = "fields"
    /\ LET r == LoadSettings(storage, mapSettings)
       IN  /\ mapSettings' = r.settings
           /\ logged' = logged \cup r.log
           /\ errors' = IF r.threw THEN errors \cup {"constructor"} ELSE errors
           /\ geo' = IF r.threw THEN "none" ELSE "open"
    /\ svc' = "ready"
    /\ initStored' = storage
    /\ UNCHANGED <<storage, map, userLocation, leafVars, pageVars>>
    /\ UNCHANGED <<geoLog, lastFix, attachEl, clicks, geoLayers>>

\* the handler of catchError, lines 60-64; an exception thrown by it reaches
\* subscribe(), which has no error callback
CatchError ==
    /\ geo' = "closed"
    /\ IF WriteThrows(mapSettings)
         THEN /\ errors' = errors \cup {"geolocation"}
              /\ UNCHANGED mapSettings
         ELSE /\ mapSettings' = UseStoredOrDefaultLocation(mapSettings)
              /\ UNCHANGED errors
    /\ UNCHANGED <<storage, userLocation, markersCreated, view>>

\* the success branch of the map() callback, lines 50-53
GeoFixNoSave(p) ==
    LET s == [mapSettings EXCEPT !.location = Def(<<p.lat, p.lng>>)]
    IN  /\ mapSettings' = s
        /\ UNCHANGED storage
        /\ renderLocationMarker(map, s)
        /\ logged' = logged \cup MarkerWarn(map)
        /\ UNCHANGED <<geo, errors>>

GeoFix(p) ==
    LET s == [mapSettings EXCEPT !.location = Def(<<p.lat, p.lng>>)]
    IN  /\ mapSettings' = s
        /\ storage' = SaveMapSettings(s)
        /\ renderLocationMarker(map, s)
        /\ logged' = logged \cup MarkerWarn(map)
        /\ UNCHANGED <<geo, errors>>

\* the geolocation observable emits r: the map() callback, lines 49-59
GeoNext(r) ==
    /\ svc = "ready" /\ geo = "open" /\ Len(geoLog) < MaxGeo
    /\ geoLog' = Append(geoLog, IF IsDef(r) THEN "fix" ELSE "null")
    /\ lastFix' = IF IsDef(r) THEN r ELSE lastFix
    /\ IF IsDef(r)
         THEN IF WriteThrows(mapSettings)
                THEN /\ CatchError
                     /\ logged' = logged \cup {"Error fetching geolocation"}
                ELSE GeoFix(Val(r))
         ELSE IF WriteThrows(mapSettings)
                THEN /\ CatchError
                     /\ logged' = logged \cup {"No position available",
                                               "Error fetching geolocation"}
                ELSE /\ mapSettings' = UseStoredOrDefaultLocation(mapSettings)
                     /\ logged' = logged \cup {"No position available"}
                     /\ UNCHANGED <<storage, userLocation, markersCreated, view,
                                    geo, errors>>
    /\ UNCHANGED <<svc, map, mapsCreated, tileLayers, pageVars>>
    /\ UNCHANGED <<initStored, attachEl, clicks, geoLayers>>

\* the geolocation observable fails
GeoError ==
    /\ svc = "ready" /\ geo = "open" /\ Len(geoLog) < MaxGeo
    /\ geoLog' = Append(geoLog, "error")
    /\ UNCHANGED lastFix
    /\ CatchError
    /\ logged' = logged \cup {"Error fetching geolocation"}
    /\ UNCHANGED <<svc, map, mapsCreated, tileLayers, pageVars>>
    /\ UNCHANGED <<initStored, attachEl, clicks, geoLayers>>

\* getMap(element) called by a client other than this page instance, any
\* number of times
GetMap(element) ==
    /\ svc = "ready"
    /\ getMap(element)
    /\ logged' = logged \cup GetMapLog(element)
    /\ errors' = IF GetMapThrows(element) THEN errors \cup {"getMap"} ELSE errors
    /\ UNCHANGED <<svc, storage, mapSettings, geo, pageVars>>
    /\ UNCHANGED <<initStored, geoLog, lastFix, attachEl, clicks, geoLayers>>

----------------------------------------------------------------------------
(* renderGeoJson / getStyles *)

\* defaultStyle of getStyles; opacities are in hundredths (0.7 is 70)
DefaultWeight == 2
DefaultOpacity == 100
DefaultFillOpacity == 70

defaultStyle ==
    [fillColor |-> Def("#FFFFFF"), weight |-> Def(DefaultWeight),
     opacity |-> Def(DefaultOpacity), color |-> Def("black"),
     dashArray |-> Def(""), fillOpacity |-> Def(DefaultFillOpacity)]

\* a || b on optional values: b when a is undefined, the number 0 or the
\* string ''
OrNumber(a, b) == IF ~IsDef(a) \/ Val(a) = 0 THEN b ELSE a
OrString(a, b) == IF ~IsDef(a) \/ Val(a) = "" THEN b ELSE a

\* feature.properties?.style
StyleOf(feature) ==
    IF IsDef(feature.properties) THEN Val(feature.properties).style ELSE Undefined

\* getStyles(feature): the L.PathOptions it returns; a field it does not
\* set is undefined
GetStyles(feature) ==
    IF IsDef(StyleOf(feature))
      THEN LET st == Val(StyleOf(feature))
           IN  [fillColor |-> OrString(st.fill, defaultStyle.fillColor),
                weight |-> OrNumber(st.weight, defaultStyle.weight),
                opacity |-> Undefined,
                color |-> OrString(st.color, defaultStyle.color),
                fillOpacity |-> OrNumber(st.fillOpacity, defaultStyle.fillOpacity),
                dashArray |-> OrString(st.dashArray, defaultStyle.dashArray)]
      ELSE defaultStyle

\* GeoJSON inputs: a style block, a Feature, a FeatureCollection
NoStyleFields ==
    [fill |-> Undefined, weight |-> Undefined, color |-> Undefined,
     fillOpacity |-> Undefined, dashArray |-> Undefined]

Feature(style) ==
    [type |-> "Feature", properties |-> Def([style |-> style]), features |-> <<>>]

FeatureCollection(fs) ==
    [type |-> "FeatureCollection", properties |-> Undefined, features |-> fs]

\* the features a GeoJSON object holds
FeaturesOf(data) == IF data.type = "Feature" THEN <<data>> ELSE data.features

StyledFeature == Feature(Def([NoStyleFields EXCEPT !.color = Def("red")]))
PlainFeature == Feature(Undefined)

GeoData == { FeatureCollection(<<StyledFeature, PlainFeature>>) }

\* style blocks with every field absent or set, the numbers also 0, and the GeoJSON
\* objects built from them
StyleBlocks ==
    [fill : {Undefined, Def("blue")},
     weight : {Undefined, Def(0), Def(5)},
     color : {Undefined, Def("red")},
     fillOpacity : {Undefined, Def(0), Def(30)},
     dashArray : {Undefined, Def("4")}]

StyleData ==
    {PlainFeature}
      \cup { Feature(Def(b)) : b \in StyleBlocks }
      \cup { FeatureCollection(<<Feature(Def(b))>>) : b \in StyleBlocks }

\* renderGeoJson(data): L.geoJSON(data, { style: this.getStyles(data) })
\* hands Leaflet one style object, which it applies to every feature
RenderGeoJsonWarn == IF IsDef(map) THEN {} ELSE {"Map not initialized"}

renderGeoJsonUnguarded(data) ==
    geoLayers' = Append(geoLayers, [on |-> IF IsDef(map) THEN Val(map).id ELSE 0,
                                    data |-> data,
                                    style |-> GetStyles(data)])

renderGeoJson(data) ==
    IF IsDef(map)
      THEN geoLayers' = Append(geoLayers, [on |-> Val(map).id,
                                           data |-> data,
                                           style |-> GetStyles(data)])
      ELSE UNCHANGED geoLayers

RenderGeoJson(data) ==
    /\ svc = "ready" /\ Len(geoLayers) < MaxGeoJson
    /\ renderGeoJson(data)
    /\ logged' = logged \cup RenderGeoJsonWarn
    /\ UNCHANGED <<svcVars, leafVars, pageVars, errors, histVars>>

----------------------------------------------------------------------------
(* MapPage *)

\* initializeOSMBuildings, with the script in state sc: window.OSMBuildings
\* is defined only once the script has loaded, and `new` on undefined throws
InitOsmbThrows(sc) == ~IsDef(osmb) /\ sc # "loaded"

initializeOSMBuildingsUnguarded(sc) ==
    IF sc # "loaded"
      THEN UNCHANGED <<osmb, osmbCreated, live>>
      ELSE /\ osmb' = Def([id |-> osmbCreated + 1, map |-> pageMap])
           /\ osmbCreated' = osmbCreated + 1
           /\ live' = live \cup {osmbCreated + 1}

initializeOSMBuildings(sc) ==
    IF IsDef(osmb) \/ sc # "loaded"
      THEN UNCHANGED <<osmb, osmbCreated, live>>
      ELSE /\ osmb' = Def([id |-> osmbCreated + 1, map |-> pageMap])
           /\ osmbCreated' = osmbCreated + 1
           /\ live' = live \cup {osmbCreated + 1}

\* toggleUI(button): the buttons marked active afterwards
ToggleUI(button) == (active \ Buttons) \cup {button}

\* ngAfterViewInit up to the await: look the element up, ask the service for
\* the map; the subscriber runs at once, keeps the handle and starts loading
\* the script.  An exception thrown by getMap is caught and logged.
NgAfterViewInit(element) ==
    /\ svc = "ready" /\ pagePc = "new"
    /\ attachEl' = Def(element)
    /\ getMap(element)
    /\ IF GetMapThrows(element)
         THEN /\ logged' = logged \cup {"Error loading OSMBuildings script"}
              /\ pagePc' = "aborted"
              /\ UNCHANGED <<pageMap, script, scriptLoads>>
         ELSE /\ logged' = logged \cup GetMapLog(element)
              /\ pageMap' = map'
              /\ script' = "loading"
              /\ scriptLoads' = scriptLoads + 1
              /\ pagePc' = "loading"
    /\ UNCHANGED <<svc, storage, mapSettings, geo, errors>>
    /\ UNCHANGED <<osmb, active, osmbCreated, live>>
    /\ UNCHANGED <<initStored, geoLog, lastFix, clicks, geoLayers>>

\* script.onload: loadScript resolves and the subscriber resumes
ScriptLoaded ==
    /\ pagePc = "loading"
    /\ script' = "loaded"
    /\ pagePc' = "done"
    /\ UNCHANGED pageMap
    /\ initializeOSMBuildings("loaded")
    /\ UNCHANGED <<svcVars, leafVars, geoLayers, active, scriptLoads, logged, errors, histVars>>

\* script.onerror: loadScript rejects, and so does the promise of the async
\* subscriber, which nothing awaits
ScriptFailed ==
    /\ pagePc = "loading"
    /\ script' = "failed"
    /\ pagePc' = "failed"
    /\ errors' = errors \cup {"Failed to load script"}
    /\ UNCHANGED <<svcVars, leafVars, pageMap, osmb, active, osmbCreated, live>>
    /\ UNCHANGED <<geoLayers, scriptLoads, logged, histVars>>

\* render3D(event), event.target being the 3D button
Render3D ==
    /\ pagePc # "new" /\ Len(clicks) < MaxClicks
    /\ clicks' = Append(clicks, "3D")
    /\ UNCHANGED pageMap
    /\ initializeOSMBuildings(script)
    /\ IF InitOsmbThrows(script)
         THEN /\ errors' = errors \cup {"OSMBuildings is not a constructor"}
              /\ UNCHANGED active
         ELSE /\ active' = ToggleUI("btn3D")
              /\ UNCHANGED errors
    /\ UNCHANGED <<svcVars, leafVars, geoLayers, pagePc, script, scriptLoads, logged>>
    /\ UNCHANGED <<initStored, geoLog, lastFix, attachEl>>

\* the overlay part of render2D, lines 60-63
RemoveOverlayKeepRef ==
    /\ live' = IF IsDef(osmb) THEN live \ {Val(osmb).id} ELSE live
    /\ UNCHANGED osmb

RemoveOverlay ==
    IF IsDef(osmb)
      THEN /\ live' = live \ {Val(osmb).id}
           /\ osmb' = Undefined
      ELSE UNCHANGED <<osmb, live>>

\* render2D(event), event.target being the 2D button
Render2D ==
    /\ pagePc # "new" /\ Len(clicks) < MaxClicks
    /\ clicks' = Append(clicks, "2D")
    /\ RemoveOverlay
    /\ active' = ToggleUI("btn2D")
    /\ UNCHANGED <<svcVars, leafVars, geoLayers, pagePc, pageMap, script, scriptLoads, osmbCreated>>
    /\ UNCHANGED <<logged, errors, initStored, geoLog, lastFix, attachEl>>

----------------------------------------------------------------------------
(* Specification *)

Init ==
    /\ svc = "fields"
    /\ storage \in Storages
    /\ mapSettings = InitialMapSettings
    /\ map = Undefined
    /\ userLocation = Undefined
    /\ geo = "none"
    /\ view = Undefined
    /\ mapsCreated = 0
    /\ tileLayers = 0
    /\ markersCreated = 0
    /\ geoLayers = <<>>
    /\ pagePc = "new"
    /\ pageMap = Undefined
    /\ osmb = Undefined
    /\ script = "none"
    /\ active \in InitialActive
    /\ scriptLoads = 0
    /\ osmbCreated = 0
    /\ live = {}
    /\ logged = {}
    /\ errors = {}
    /\ initStored = NoEntry
    /\ geoLog = <<>>
    /\ lastFix = Undefined
    /\ attachEl = Undefined
    /\ clicks = <<>>

Next ==
    \/ Constructor
    \/ \E r \in GeoResults : GeoNext(r)
    \/ GeoError
    \/ \E e \in Elements : GetMap(e)
    \/ \E d \in GeoData : RenderGeoJson(d)
    \/ \E e \in Elements : NgAfterViewInit(e)
    \/ ScriptLoaded
    \/ ScriptFailed
    \/ Render3D
    \/ Render2D

Spec == Init /\ [][Next]_vars

\* renderGeoJson over every shape of style block, on a service constructed
\* with no persisted settings
InitStyles == Init /\ storage = NoEntry /\ active = {}

NextStyles ==
    \/ Constructor
    \/ \E e \in Elements : GetMap(e)
    \/ \E d \in StyleData : RenderGeoJson(d)

SpecStyles == InitStyles /\ [][NextStyles]_vars

----------------------------------------------------------------------------
(* Properties *)

Last(q) == q[Len(q)]
FixLocation == Def(<<Val(lastFix).lat, Val(lastFix).lng>>)
PageErrors == {"Failed to load script", "OSMBuildings is not a constructor"}

\* C1: with no persisted settings and a position p reported by the
\* geolocation collaborator, the persisted entry holds the settings with
\* location p and, once the map exists, the view target and the marker are
\* at p, whichever of getMap and the geolocation result came first.
C1_FixCentersAndPersists ==
    (svc = "ready" /\ initStored = NoEntry /\ IsDef(lastFix)) =>
        /\ mapSettings.location = FixLocation
        /\ IsDef(storage)
        /\ Parse(Val(storage)).ok
        /\ Parse(Val(storage)).value = mapSettings
        /\ IsDef(map) => /\ Val(view).center = FixLocation
                         /\ Val(userLocation).pos = FixLocation

\* a fix that arrived after the map had been created at the default location
C1_Witness ==
    /\ initStored = NoEntry
    /\ IsDef(lastFix)
    /\ IsDef(map)
    /\ Val(map).center = Def(DefaultLocation)
    /\ Val(view).center = FixLocation
    /\ Parse(Val(storage)).value.location = FixLocation

\* C2 (as claimed): at most one map is ever constructed; a getMap with a
\* present element while no map exists constructs it from the current
\* settings; a getMap while the map exists changes nothing.
C2_SingleMapAsClaimed ==
    [][ /\ mapsCreated' <= 1
        /\ \A e \in Elements :
             (GetMap(e) \/ NgAfterViewInit(e)) =>
                /\ (IsDef(map) =>
                       /\ map' = map
                       /\ tileLayers' = tileLayers
                       /\ mapSettings' = mapSettings)
                /\ (~IsDef(map) /\ IsDef(e) =>
                       /\ IsDef(map')
                       /\ mapsCreated' = 1
                       /\ Val(map').center = LocationOf(mapSettings)
                       /\ Val(map').zoom = ZoomOf(mapSettings)) ]_vars

\* C3: at most one overlay is live, and it is the one the page refers to.
C3_AtMostOneOverlay ==
    /\ Cardinality(live) <= 1
    /\ IsDef(osmb) => live = {Val(osmb).id}
    /\ ~IsDef(osmb) => live = {}

\* render3D invoked twice in a row with the script loaded
C3_Witness ==
    /\ clicks = <<"3D", "3D">>
    /\ script = "loaded"
    /\ Cardinality(live) = 1
    /\ osmbCreated = 1

\* C4: a render2D that follows a render3D ends with no overlay, no overlay
\* reference, the 2D button active and the 3D button not.
C4_OnThenOffIs2D ==
    [][ (clicks # <<>> /\ Last(clicks) = "3D" /\ clicks' = Append(clicks, "2D")) =>
            /\ osmb' = Undefined
            /\ live' = {}
            /\ "btn2D" \in active'
            /\ "btn3D" \notin active' ]_vars

\* an overlay was created, then removed by the render2D that followed render3D
C4_Witness ==
    /\ clicks = <<"3D", "2D">>
    /\ osmbCreated = 1
    /\ live = {}
    /\ osmb = Undefined
    /\ active = {"btn2D"}

\* C5: with an unparseable persisted entry the constructor does not throw
\* and the settings are the defaults, the location until a position is
\* reported.
C5_MalformedFallsBack ==
    (svc = "ready" /\ initStored = Def(GarbageText)) =>
        /\ "constructor" \notin errors
        /\ mapSettings.kind = "object"
        /\ mapSettings.zoom = Def(DefaultZoom)
        /\ mapSettings.location =
              IF IsDef(lastFix) THEN FixLocation ELSE Def(DefaultLocation)

C5_Witness ==
    /\ svc = "ready"
    /\ initStored = Def(GarbageText)
    /\ mapSettings = defaultMapSettings
    /\ "Error parsing map settings from localStorage" \in logged

\* C6 (as claimed): after the constructor the settings are an object that
\* carries a location and a zoom.
C6_SettingsCompleteAsClaimed ==
    svc = "ready" =>
        /\ mapSettings.kind = "object"
        /\ IsDef(mapSettings.location)
        /\ IsDef(mapSettings.zoom)

\* C7: with no persisted settings, a null geolocation result and no
\* position reported, the map is centred on the default location.
C7_NullGivesDefaultCenter ==
    (/\ initStored = NoEntry
     /\ \E i \in 1..Len(geoLog) : geoLog[i] = "null"
     /\ ~IsDef(lastFix)
     /\ IsDef(map)) =>
        /\ Val(map).center = Def(DefaultLocation)
        /\ Val(view).center = Def(DefaultLocation)
        /\ Val(userLocation).pos = Def(DefaultLocation)

C7_Witness ==
    /\ initStored = NoEntry
    /\ geoLog = <<"null">>
    /\ IsDef(map)
    /\ Val(view).center = Def(DefaultLocation)

\* C8 (as claimed): processing a null result or a failure leaves the
\* settings, the persisted entry, the marker and the view as they were.
C8_NullOrErrorChangesNothingAsClaimed ==
    [][ (geoLog' # geoLog /\ Last(geoLog') \in {"null", "error"}) =>
            /\ mapSettings' = mapSettings
            /\ storage' = storage
            /\ userLocation' = userLocation
            /\ map' = map
            /\ view' = view ]_vars

\* C9 (as claimed): once the script has failed to load, the failure has been
\* logged, no overlay exists, no error has escaped the page and the page
\* holds the map handle of the service.
C9_ScriptFailureAsClaimed ==
    script = "failed" =>
        /\ live = {}
        /\ osmbCreated = 0
        /\ "Error loading OSMBuildings script" \in logged
        /\ errors \cap PageErrors = {}
        /\ pageMap = map

\* C10 (as claimed): when the element was missing at view-attach and the
\* page got no map handle, no overlay is ever constructed.
C10_MissingElementAsClaimed ==
    (attachEl = Def(Undefined) /\ ~IsDef(pageMap)) =>
        /\ "Map element not found" \in logged
        /\ osmbCreated = 0
        /\ live = {}

\* C11 (as claimed): once the view is attached the script load has been
\* started exactly once, after the page asked the service for the map, and
\* nothing starts a second load.
C11_ScriptLoadedOnceAsClaimed ==
    /\ scriptLoads <= 1
    /\ scriptLoads = 1 => IsDef(attachEl)
    /\ pagePc # "new" => scriptLoads = 1

\* C12 (as claimed): every render3D / render2D leaves exactly the invoked
\* button active.
C12_InvokedButtonActiveAsClaimed ==
    [][ clicks' # clicks =>
            active' = {IF Last(clicks') = "3D" THEN "btn3D" ELSE "btn2D"} ]_vars

\* C13 (as claimed): the marker does not exist before a position has been
\* reported, and at most one marker is ever created.
C13_MarkerAfterFixAsClaimed ==
    /\ markersCreated <= 1
    /\ IsDef(userLocation) => \E i \in 1..Len(geoLog) : geoLog[i] = "fix"

\* C13 (amended): the marker is created together with the map, whether or
\* not a position has been reported, on that map, and it is the only marker
\* ever created: later updates reposition it.
C13_MarkerCreatedWithMap ==
    /\ markersCreated <= 1
    /\ IsDef(userLocation) <=> IsDef(map)
    /\ IsDef(userLocation) <=> markersCreated = 1
    /\ IsDef(userLocation) => /\ Val(userLocation).id = 1
                              /\ Val(userLocation).on = Val(map).id

\* the marker created at the default location and moved by two fixes
C13_Witness ==
    /\ initStored = NoEntry
    /\ geoLog = <<"fix", "fix">>
    /\ IsDef(map)
    /\ Val(map).center = Def(DefaultLocation)
    /\ markersCreated = 1
    /\ Val(userLocation).pos = FixLocation

\* the style the claim gives a feature: field by field the override when the
\* style block has one, the default otherwise
ClaimedField(feature, k, d) ==
    IF IsDef(StyleOf(feature)) /\ IsDef(Val(StyleOf(feature))[k])
      THEN Val(StyleOf(feature))[k] ELSE d

\* C14 (as claimed): every feature of every overlay is drawn with its own
\* style block laid over the default style.  (An opacity the code leaves
\* unset is not held against the claim.)
C14_PerFeatureStyleAsClaimed ==
    \A i \in 1..Len(geoLayers) :
        LET fs == FeaturesOf(geoLayers[i].data)
            st == geoLayers[i].style
        IN  \A j \in 1..Len(fs) :
              /\ st.fillColor = ClaimedField(fs[j], "fill", defaultStyle.fillColor)
              /\ st.weight = ClaimedField(fs[j], "weight", defaultStyle.weight)
              /\ st.color = ClaimedField(fs[j], "color", defaultStyle.color)
              /\ st.fillOpacity =
                    ClaimedField(fs[j], "fillOpacity", defaultStyle.fillOpacity)
              /\ st.dashArray = ClaimedField(fs[j], "dashArray", defaultStyle.dashArray)
              /\ IsDef(st.opacity) => st.opacity = defaultStyle.opacity

\* C15 (as claimed): a reported position overwrites the persisted entry with
\* the serialized settings, which carry that position; no other step writes
\* the entry.
C15_PersistOnEveryFixAsClaimed ==
    [][ IF geoLog' # geoLog /\ Last(geoLog') = "fix"
          THEN /\ mapSettings'.kind = "object"
               /\ mapSettings'.location = FixLocation'
               /\ storage' = Def(Stringify(mapSettings'))
          ELSE storage' = storage ]_vars

\* C16: renderGeoJson without a map warns and changes nothing else; with a
\* map it adds exactly one overlay, to that map, and changes nothing else.
C16_RenderGeoJsonNeedsMap ==
    [][ \A d \in GeoData :
          RenderGeoJson(d) =>
            /\ UNCHANGED <<map, mapSettings, userLocation, storage, view>>
            /\ IF IsDef(map)
                 THEN /\ Len(geoLayers') = Len(geoLayers) + 1
                      /\ SubSeq(geoLayers', 1, Len(geoLayers)) = geoLayers
                      /\ Last(geoLayers').on = Val(map).id
                      /\ Last(geoLayers').data = d
                 ELSE /\ geoLayers' = geoLayers
                      /\ "Map not initialized" \in logged' ]_vars

\* renderGeoJson was called before the map existed (no geolocation result
\* can have caused the warning) and once more after
C16_Witness ==
    /\ geoLog = <<>>
    /\ "Map not initialized" \in logged
    /\ IsDef(map)
    /\ Len(geoLayers) = 1
    /\ geoLayers[1].on = Val(map).id

\* C17 (as claimed): once a button has been clicked, an overlay exists
\* exactly when the last operation invoked was render3D.
C17_OverlayFollowsLastClickAsClaimed ==
    clicks # <<>> => (live # {} <=> Last(clicks) = "3D")

\* C18 (as claimed): when the marker exists, its position and the last view
\* target are the location of the settings.
C18_MarkerAtSettingsLocationAsClaimed ==
    IsDef(userLocation) =>
        /\ Val(userLocation).pos = LocationOf(mapSettings)
        /\ Val(view).center = LocationOf(mapSettings)

====
